---- MODULE Spec2Model ----
(***************************************************************************)
(* netplan_cli/cli/ovs.py: cleanup of the Open vSwitch database.           *)
(*                                                                         *)
(* apply_ovs_cleanup() deletes the netplan=true tagged ports, bridges and  *)
(* interfaces that the current configuration no longer declares, then      *)
(* clears every setting recorded by a netplan/<column>[/<key>]=<value> tag *)
(* in external-ids.  Every step of it is an ovs-vsctl invocation: the      *)
(* model keeps the argv of each invocation in `log' and lets the database  *)
(* (the variable db) answer it.                                            *)
(*                                                                         *)
(* Text is modelled as a sequence of atoms.  An atom is a piece of text    *)
(* that holds none of the separators the code splits on; the separators    *)
(* "/", "=", ",", " ", the double quote and the line feed "\n" are atoms   *)
(* of their own.  'netplan=true' is <<"netplan", "=", "true">>.            *)
(***************************************************************************)
EXTENDS Integers, Sequences, FiniteSets

VARIABLES
    installed,   \* os.path.exists(OVS_VSCTL_PATH)
    active,      \* 'ovs-vsctl show' exits 0
    netdefs,     \* config_manager.netdefs: interface name -> backend
    db,          \* the Open vSwitch database
    run,         \* number of the current call of apply_ovs_cleanup
    pc,          \* position in the code
    err,         \* the exception the current call ended with, or "none"
    log,         \* ovs-vsctl invocations of the current call, in order
    db0,         \* the database when the current call started
    parsed,      \* config_manager.parse() was called in the current call
    ovs_ifaces,  \* apply_ovs_cleanup: ovs_ifaces
    t,           \* apply_ovs_cleanup: the table of the current for loop
    lines,       \* out.splitlines(), the lines still to visit
    entries,     \* extids.strip('"').split(' '), the entries still to visit
    iface,       \* apply_ovs_cleanup / clear_setting: iface
    del_cmd,     \* the delete command chosen for the current stale row
    type,        \* clear_setting: type
    setting,     \* clear_setting: setting
    value,       \* clear_setting: value
    out,         \* _del_global: out, the text the get command printed
    caller       \* who called clear_setting: "apply_ovs_cleanup" or "direct"

vars == <<installed, active, netdefs, db, run, pc, err, log, db0, parsed,
          ovs_ifaces, t, lines, entries, iface, del_cmd, type, setting,
          value, out, caller>>

-----------------------------------------------------------------------------
(* Text *)

S(a) == <<a>>

RECURSIVE Join(_, _)
Join(parts, sep) ==
    IF parts = <<>> THEN <<>>
    ELSE IF Len(parts) = 1 THEN parts[1]
    ELSE parts[1] \o sep \o Join(Tail(parts), sep)

IndexOf(s, a) ==
    IF \E i \in 1..Len(s) : s[i] = a
    THEN CHOOSE i \in 1..Len(s) : s[i] = a /\ \A j \in 1..(i-1) : s[j] # a
    ELSE 0

\* str.split(sep, maxsplit) for a one-character sep
RECURSIVE SplitN(_, _, _)
SplitN(s, sep, maxsplit) ==
    LET i == IndexOf(s, sep) IN
    IF maxsplit = 0 \/ i = 0 THEN <<s>>
    ELSE <<SubSeq(s, 1, i-1)>> \o SplitN(SubSeq(s, i+1, Len(s)), sep, maxsplit-1)

\* str.split(sep)
Split(s, sep) == SplitN(s, sep, Len(s))

\* needle in hay
Contains(hay, needle) ==
    \E i \in 0..(Len(hay) - Len(needle)) :
        SubSeq(hay, i+1, i+Len(needle)) = needle

\* str.startswith
StartsWith(s, prefix) ==
    Len(s) >= Len(prefix) /\ SubSeq(s, 1, Len(prefix)) = prefix

\* str.strip(chars) for a one-character chars
RECURSIVE Strip(_, _)
Strip(s, a) ==
    IF s = <<>> THEN s
    ELSE IF s[1] = a THEN Strip(Tail(s), a)
    ELSE IF s[Len(s)] = a THEN Strip(SubSeq(s, 1, Len(s)-1), a)
    ELSE s

\* str.splitlines(): the text is cut at every line feed, no empty last line
SplitLines(text) ==
    LET parts == Split(text, "\n") IN
    IF parts[Len(parts)] = <<>> THEN SubSeq(parts, 1, Len(parts)-1) ELSE parts

Range(seq) == {seq[i] : i \in 1..Len(seq)}

-----------------------------------------------------------------------------
(* Module constants *)

OPENVSWITCH_OVS_VSCTL == S("ovs-vsctl")

\* DEFAULTS: non-optional columns and their defaults
DEFAULTS ==
    [column \in {S("mcast_snooping_enable"), S("rstp_enable")} |-> S("false")]

\* GLOBALS: global command -> (del command, get command)
GLOBALS ==
    [key \in {S("set-ssl"), S("set-fail-mode"), S("set-controller")} |->
        IF key = S("set-ssl") THEN <<S("del-ssl"), S("get-ssl")>>
        ELSE IF key = S("set-fail-mode") THEN <<S("del-fail-mode"), S("get-fail-mode")>>
        ELSE <<S("del-controller"), S("get-controller")>>]

-----------------------------------------------------------------------------
(* The database behind ovs-vsctl.                                          *)
(*                                                                         *)
(* A row is [name, owner, fake, extids, other, cols, target]: name is the  *)
(* name column ("." for the Open_vSwitch row, the _uuid of a Controller),  *)
(* owner the row that references it (a Port's bridge, an Interface's port, *)
(* a Controller's bridge), fake marks the port of a VLAN fake bridge,      *)
(* extids and other are the maps external-ids and other-config in the      *)
(* order ovs-vsctl prints them, cols the scalar columns (<<>>: empty) and  *)
(* target a Controller's target.  db.SSL is <<>> or the three files of the *)
(* SSL row.                                                                *)

Tables == {"Port", "Bridge", "Interface", "Open_vSwitch", "Controller"}

MandatoryColumns == {S("mcast_snooping_enable"), S("rstp_enable")}
OptionalColumns == {S("fail_mode"), S("lacp"), S("connection-mode")}
Columns == MandatoryColumns \cup OptionalColumns

\* the index in table tbl of the row that ovs-vsctl calls id
FindRow(d, tbl, id) ==
    LET rows == d[tbl]
        hit(i) == IF tbl = "Open_vSwitch" THEN id = S(".") ELSE rows[i].name = id
    IN IF \E i \in 1..Len(rows) : hit(i)
       THEN CHOOSE i \in 1..Len(rows) : hit(i)
       ELSE 0

HasRow(d, tbl, id) == FindRow(d, tbl, id) # 0

\* 'k=v k=v': a map in the bare data format
RECURSIVE RenderMap(_)
RenderMap(m) ==
    IF m = <<>> THEN <<>>
    ELSE IF Len(m) = 1 THEN m[1][1] \o S("=") \o m[1][2]
    ELSE m[1][1] \o S("=") \o m[1][2] \o S(" ") \o RenderMap(Tail(m))

\* a cell of the csv output format: quoted when it holds a space, a comma
\* or a quote
Cell(s) ==
    IF \E i \in 1..Len(s) : s[i] \in {" ", ",", "\""}
    THEN S("\"") \o s \o S("\"")
    ELSE s

\* ovs-vsctl --columns=<cols> -f csv -d bare --no-headings list <tbl>
RECURSIVE ListRows(_, _)
ListRows(rows, cols) ==
    IF rows = <<>> THEN <<>>
    ELSE LET r == rows[1]
             cell(c) == IF c \in {S("name"), S("_uuid")} THEN Cell(r.name)
                        ELSE Cell(RenderMap(r.extids))
         IN Join([i \in 1..Len(cols) |-> cell(cols[i])], S(","))
            \o S("\n") \o ListRows(Tail(rows), cols)

\* the value of a 'key=value' argument, without the quotes around it
Unquote(s) ==
    IF Len(s) >= 2 /\ s[1] = "\"" /\ s[Len(s)] = "\""
    THEN SubSeq(s, 2, Len(s)-1) ELSE s

\* ovs-vsctl remove on a map column: arg is 'key=value' (that pair goes, if
\* it is there) or 'key' (the key goes, whatever its value)
RemoveFromMap(m, arg) ==
    LET kv == SplitN(arg, "=", 1)
        gone(e) == IF Len(kv) = 2
                   THEN e[1] = kv[1] /\ e[2] = Unquote(kv[2])
                   ELSE e[1] = arg
        keep(e) == ~gone(e)
    IN SelectSeq(m, keep)

Answer(rc, text, d) == [rc |-> rc, out |-> text, db |-> d]

\* ovs-vsctl remove <tbl> <id> <column> <arg>
VsctlRemove(d, tbl, id, column, arg) ==
    LET i == FindRow(d, tbl, id) IN
    IF i = 0 THEN Answer(1, <<>>, d)
    ELSE IF column = S("external-ids")
    THEN Answer(0, <<>>, [d EXCEPT ![tbl][i].extids = RemoveFromMap(@, arg)])
    ELSE IF column = S("other-config")
    THEN Answer(0, <<>>, [d EXCEPT ![tbl][i].other = RemoveFromMap(@, arg)])
    ELSE IF column \in OptionalColumns
    THEN Answer(0, <<>>, [d EXCEPT ![tbl][i].cols[column] =
                                       IF @ = arg THEN <<>> ELSE @])
    ELSE Answer(1, <<>>, d)

\* ovs-vsctl set <tbl> <id> <column>=<value>
VsctlSet(d, tbl, id, arg) ==
    LET i == FindRow(d, tbl, id)
        kv == SplitN(arg, "=", 1)
    IN IF i = 0 \/ Len(kv) < 2 \/ kv[1] \notin Columns
       THEN Answer(1, <<>>, d)
       ELSE Answer(0, <<>>, [d EXCEPT ![tbl][i].cols[kv[1]] = kv[2]])

\* ovs-vsctl br-exists <name>: a bridge, or the port of a fake bridge
BrExists(d, name) ==
    \/ HasRow(d, "Bridge", name)
    \/ \E i \in 1..Len(d.Port) : d.Port[i].name = name /\ d.Port[i].fake

Without(rows, Gone(_)) == LET keep(r) == ~Gone(r) IN SelectSeq(rows, keep)

\* ovs-vsctl del-port <name>: the port and its interfaces
DelPort(d, name) ==
    LET gonePort(r) == r.name = name
        goneIface(r) == r.owner = name
    IN [d EXCEPT !.Port = Without(@, gonePort),
                 !.Interface = Without(@, goneIface)]

\* ovs-vsctl del-br <name>: the bridge, its ports (the one of its own name
\* among them), their interfaces and its controllers; of a fake bridge, its
\* port and that port's interfaces
DelBr(d, name) ==
    LET real == HasRow(d, "Bridge", name)
        gonePort(r) == r.name = name \/ (real /\ r.owner = name)
        ports == {name} \cup {d.Port[i].name : i \in {j \in 1..Len(d.Port) : gonePort(d.Port[j])}}
        goneIface(r) == r.owner \in ports
        goneBridge(r) == r.name = name
        goneCtl(r) == real /\ r.owner = name
    IN [d EXCEPT !.Port = Without(@, gonePort),
                 !.Interface = Without(@, goneIface),
                 !.Bridge = Without(@, goneBridge),
                 !.Controller = Without(@, goneCtl)]

\* ovs-vsctl del-bond-iface <name>
DelBondIface(d, name) ==
    LET gone(r) == r.name = name IN [d EXCEPT !.Interface = Without(@, gone)]

\* ovs-vsctl [--if-exists] del-port | del-br | del-bond-iface <name>
VsctlDel(d, cmd, name, if_exists) ==
    LET there == IF cmd = S("del-port") THEN HasRow(d, "Port", name)
                 ELSE IF cmd = S("del-br") THEN BrExists(d, name)
                 ELSE HasRow(d, "Interface", name)
    IN IF ~there THEN Answer(IF if_exists THEN 0 ELSE 1, <<>>, d)
       ELSE IF cmd = S("del-port") THEN Answer(0, <<>>, DelPort(d, name))
       ELSE IF cmd = S("del-br") THEN Answer(0, <<>>, DelBr(d, name))
       ELSE Answer(0, <<>>, DelBondIface(d, name))

\* the targets of a bridge's controllers, one on a line
RECURSIVE ControllerLines(_, _)
ControllerLines(rows, bridge) ==
    IF rows = <<>> THEN <<>>
    ELSE (IF rows[1].owner = bridge THEN rows[1].target \o S("\n") ELSE <<>>)
         \o ControllerLines(Tail(rows), bridge)

\* ovs-vsctl get-ssl
SslText(ssl) ==
    IF ssl = <<>> THEN <<>>
    ELSE S("Private key: ") \o ssl[1] \o S("\n")
         \o S("Certificate: ") \o ssl[2] \o S("\n")
         \o S("CA Certificate: ") \o ssl[3] \o S("\n")
         \o S("Bootstrap: ") \o S("false") \o S("\n")

\* ovs-vsctl get-ssl | get-fail-mode <bridge> | get-controller <bridge>
VsctlGet(d, cmd, args) ==
    IF cmd = S("get-ssl")
    THEN (IF args = <<>> THEN Answer(0, SslText(d.SSL), d) ELSE Answer(1, <<>>, d))
    ELSE IF Len(args) # 1 \/ ~HasRow(d, "Bridge", args[1]) THEN Answer(1, <<>>, d)
    ELSE IF cmd = S("get-fail-mode")
    THEN LET mode == d.Bridge[FindRow(d, "Bridge", args[1])].cols[S("fail_mode")]
         IN Answer(0, IF mode = <<>> THEN <<>> ELSE mode \o S("\n"), d)
    ELSE Answer(0, ControllerLines(d.Controller, args[1]), d)

\* ovs-vsctl del-ssl | del-fail-mode <bridge> | del-controller <bridge>
VsctlDelGlobal(d, cmd, args) ==
    IF cmd = S("del-ssl")
    THEN (IF args = <<>> THEN Answer(0, <<>>, [d EXCEPT !.SSL = <<>>])
          ELSE Answer(1, <<>>, d))
    ELSE IF Len(args) # 1 \/ ~HasRow(d, "Bridge", args[1]) THEN Answer(1, <<>>, d)
    ELSE IF cmd = S("del-fail-mode")
    THEN Answer(0, <<>>, [d EXCEPT !.Bridge[FindRow(d, "Bridge", args[1])]
                                        .cols[S("fail_mode")] = <<>>])
    ELSE LET gone(r) == r.owner = args[1]
         IN Answer(0, <<>>, [d EXCEPT !.Controller = Without(@, gone)])

\* what ovs-vsctl does with an argv (argv[1] is the path of the tool) when
\* the database server answers: [rc, out, db]
Vsctl(argv, d) ==
    LET a == Tail(argv) IN
    IF a[1] = S("show") THEN Answer(0, <<>>, d)
    ELSE IF a[1][1] = "--columns="
    THEN Answer(0, ListRows(d[a[8][1]], Split(Tail(a[1]), ",")), d)
    ELSE IF a[1] = S("br-exists")
    THEN Answer(IF BrExists(d, a[2]) THEN 0 ELSE 2, <<>>, d)
    ELSE IF a[1] = S("--if-exists") THEN VsctlDel(d, a[2], a[3], TRUE)
    ELSE IF a[1] \in {S("del-port"), S("del-br"), S("del-bond-iface")}
    THEN VsctlDel(d, a[1], a[2], FALSE)
    ELSE IF a[1] = S("remove") THEN VsctlRemove(d, a[2][1], a[3], a[4], a[5])
    ELSE IF a[1] = S("set") THEN VsctlSet(d, a[2][1], a[3], a[4])
    ELSE IF a[1] \in {S("get-ssl"), S("get-fail-mode"), S("get-controller")}
    THEN VsctlGet(d, a[1], Tail(a))
    ELSE IF a[1] \in {S("del-ssl"), S("del-fail-mode"), S("del-controller")}
    THEN VsctlDelGlobal(d, a[1], Tail(a))
    ELSE Answer(1, <<>>, d)

-----------------------------------------------------------------------------
(* The code *)

OVS_VSCTL_PATH == S("/usr/bin/") \o OPENVSWITCH_OVS_VSCTL

\* the tags the code looks for in the text ovs-vsctl prints
Marker == <<"netplan", "=", "true">>
TagPrefix == <<"netplan", "/">>

\* is_ovs_interface without the test of the backend
is_declared_interface(i, np_interface_dict) == i \in DOMAIN np_interface_dict

\* is_ovs_interface(iface, np_interface_dict)
is_ovs_interface(i, np_interface_dict) ==
    i \in DOMAIN np_interface_dict /\ np_interface_dict[i] = "OpenVSwitch"

\* apply_ovs_cleanup: the set ovs_ifaces built from config_manager.netdefs
OvsIfaces(np_interface_dict) ==
    {i \in DOMAIN np_interface_dict : is_ovs_interface(i, np_interface_dict)}

\* the tables of step 1 with the bridges first
Step1TablesBridgeFirst ==
    << <<S("Bridge"), S("del-br")>>,
       <<S("Port"), S("del-port")>>,
       <<S("Interface"), S("del-br")>> >>

\* the tables of step 1, each with its delete command
Step1Tables ==
    << <<S("Port"), S("del-port")>>,
       <<S("Bridge"), S("del-br")>>,
       <<S("Interface"), S("del-br")>> >>

\* the tables of step 2
Step2Tables ==
    <<S("Port"), S("Bridge"), S("Interface"), S("Open_vSwitch"), S("Controller")>>

\* step 2: cols
Step2Cols(tbl) ==
    IF tbl = S("Open_vSwitch") THEN S("external-ids")
    ELSE IF tbl = S("Controller") THEN <<"_uuid", ",", "external-ids">>
    ELSE <<"name", ",", "external-ids">>

\* [OVS_VSCTL_PATH, '--columns=<cols>', '-f', 'csv', '-d', 'bare',
\*  '--no-headings', 'list', <tbl>]
ListArgv(cols, tbl) ==
    <<OVS_VSCTL_PATH, S("--columns=") \o cols, S("-f"), S("csv"), S("-d"),
      S("bare"), S("--no-headings"), S("list"), tbl>>

\* step 1: the name of the row on a line
Step1Iface(line) == Split(line, ",")[1]

\* step 1: the line is one of a tagged row that the configuration does not
\* declare
Stale(line, ovs) ==
    Contains(line, Marker) /\ Step1Iface(line) \notin ovs

\* step 1 with the delete command of the table, whatever 'br-exists' said
Step1DelCmdOfTable(tbl, rc) == tbl[2]

\* step 1: the delete command after 'br-exists' returned rc
Step1DelCmd(tbl, rc) ==
    IF tbl[1] = S("Interface") /\ rc > 0 THEN S("del-bond-iface") ELSE tbl[2]

\* [OVS_VSCTL_PATH, '--if-exists', <cmd>, iface]
DeleteArgv(cmd, name) == <<OVS_VSCTL_PATH, S("--if-exists"), cmd, name>>

\* step 2: the line holds a tag
Tagged(line) == Contains(line, TagPrefix)

\* step 2: iface of a line
Step2Iface(tbl, line) ==
    IF tbl # S("Open_vSwitch") THEN SplitN(line, ",", 1)[1] ELSE S(".")

\* step 2: extids of a line
Step2Extids(tbl, line) ==
    IF tbl # S("Open_vSwitch") THEN SplitN(line, ",", 1)[2] ELSE line

\* step 2: extids.strip('"').split(' ')
Entries(extids) == Split(Strip(extids, "\""), " ")

\* step 2: the entry is a tag with a value
IsTag(entry) ==
    StartsWith(entry, TagPrefix) /\ \E i \in 1..Len(entry) : entry[i] = "="

\* clear_setting without the branch for global
ClearKindNoGlobal(key) ==
    LET split == SplitN(key, "/", 2)
    IN IF Len(split) > 2 THEN "dict" ELSE "col"

\* clear_setting: which of _del_global, _del_dict and _del_col is called
ClearKind(key) ==
    LET split == SplitN(key, "/", 2)
        col == split[2]
    IN IF col = S("global") /\ Len(split) > 2 THEN "global"
       ELSE IF Len(split) > 2 THEN "dict"
       ELSE "col"

\* _del_col without the table of defaults
DelColPlanNoDefaults(column, val) == "remove"

\* _del_col resetting the column only while it holds the recorded value
DelColPlanIfLive(column, val) ==
    IF column \notin DOMAIN DEFAULTS THEN "remove"
    ELSE IF /\ DEFAULTS[column] # <<>> /\ DEFAULTS[column] # val
            /\ db[type[1]][FindRow(db, type[1], iface)].cols[column] = val
    THEN "set"
    ELSE "none"

\* _del_col: "remove", "set" or "none"
DelColPlan(column, val) ==
    IF column \notin DOMAIN DEFAULTS THEN "remove"
    ELSE IF DEFAULTS[column] # <<>> /\ DEFAULTS[column] # val THEN "set"
    ELSE "none"

\* _del_col clearing the column, whatever it holds
DelColClearArgv(tbl, name, column, val) ==
    <<OVS_VSCTL_PATH, S("clear"), tbl, name, column>>

\* _del_col: [OVS_VSCTL_PATH, 'remove', type, iface, column, value]
DelColRemoveArgv(tbl, name, column, val) ==
    <<OVS_VSCTL_PATH, S("remove"), tbl, name, column, val>>

\* _del_col: [OVS_VSCTL_PATH, 'set', type, iface, '%s=%s' % (column, default)]
DelColSetArgv(tbl, name, column) ==
    <<OVS_VSCTL_PATH, S("set"), tbl, name, column \o S("=") \o DEFAULTS[column]>>

\* _del_dict with the key alone, not the pair
DelDictArgvKeyOnly(tbl, name, column, key, val) ==
    <<OVS_VSCTL_PATH, S("remove"), tbl, name, column, key>>

\* _del_dict: [OVS_VSCTL_PATH, 'remove', type, iface, column, '%s="%s"' % (key, value)]
DelDictArgv(tbl, name, column, key, val) ==
    <<OVS_VSCTL_PATH, S("remove"), tbl, name, column,
      key \o S("=") \o S("\"") \o val \o S("\"")>>

\* _del_global without the test for del-ssl
GlobalArgsOfObject(key, name) == IF name = <<>> THEN <<>> ELSE <<name>>

\* _del_global: the object argument of the get and the del command
GlobalArgs(key, name) ==
    IF GLOBALS[key][1] = S("del-ssl") \/ name = <<>> THEN <<>> ELSE <<name>>

\* _del_global: args_get
ArgsGet(key, name) == <<OVS_VSCTL_PATH, GLOBALS[key][2]>> \o GlobalArgs(key, name)

\* _del_global: args_del
ArgsDel(key, name) == <<OVS_VSCTL_PATH, GLOBALS[key][1]>> \o GlobalArgs(key, name)

\* _del_global with any() in the place of all()
AnyItemIn(text, val) ==
    LET items == Split(val, ",") IN
    \E i \in 1..Len(items) : Contains(text, items[i])

\* _del_global: all(item in out for item in value.split(','))
AllItemsIn(text, val) ==
    LET items == Split(val, ",") IN
    \A i \in 1..Len(items) : Contains(text, items[i])

\* clear_setting removing the whole entry 'setting=value', which is no key
RemoveTagArgvEntry(tbl, name, key) ==
    <<OVS_VSCTL_PATH, S("remove"), tbl, name, S("external-ids"),
      key \o S("=") \o S("\"") \o key \o S("\"")>>

\* clear_setting removing the key netplan, the marker
RemoveTagArgvMarker(tbl, name, key) ==
    <<OVS_VSCTL_PATH, S("remove"), tbl, name, S("external-ids"), S("netplan")>>

\* clear_setting: [OVS_VSCTL_PATH, 'remove', type, iface, 'external-ids', setting]
RemoveTagArgv(tbl, name, key) ==
    <<OVS_VSCTL_PATH, S("remove"), tbl, name, S("external-ids"), key>>

\* the column and the key that a tag names
TagColumn(key) == SplitN(key, "/", 2)[2]
TagKey(key) == SplitN(key, "/", 2)[3]

-----------------------------------------------------------------------------
(* One invocation of ovs-vsctl.  Any invocation can exit non-zero, whatever *)
(* the database holds: fails chooses that.                                  *)

Exec(argv, fails) == IF fails THEN Answer(1, <<>>, db) ELSE Vsctl(argv, db)

Logged(argv, rc, at, tbl) == [argv |-> argv, rc |-> rc, at |-> at, t |-> tbl]

\* an exception leaves the call
Raise(e) == pc' = "failed" /\ err' = e

\* subprocess.call in the place of check_call: the exit code is not looked at
Call(argv, at, tbl, next, fails) ==
    LET r == Exec(argv, fails) IN
    /\ log' = Append(log, Logged(argv, r.rc, at, tbl))
    /\ db' = r.db
    /\ pc' = next /\ err' = err

\* subprocess.check_call / check_output of argv at position `at': the
\* invocation is logged, the database changes as ovs-vsctl changes it, and
\* a non-zero exit raises CalledProcessError
CheckCall(argv, at, tbl, next, fails) ==
    LET r == Exec(argv, fails) IN
    /\ log' = Append(log, Logged(argv, r.rc, at, tbl))
    /\ db' = r.db
    /\ IF r.rc = 0 THEN pc' = next /\ err' = err
       ELSE Raise("CalledProcessError")

-----------------------------------------------------------------------------
(* apply_ovs_cleanup *)

env == <<installed, active, netdefs>>
call == <<type, setting, value, out>>

\* apply_ovs_cleanup without the test of _ovs_installed()
SkipInstalled ==
    /\ pc = "start"
    /\ pc' = "probe"
    /\ UNCHANGED <<env, db, run, err, log, db0, parsed, ovs_ifaces, t, lines,
                   entries, iface, del_cmd, call, caller>>

\* if not _ovs_installed(): raise OvsDbServerNotInstalled
CheckInstalled ==
    /\ pc = "start"
    /\ IF installed THEN pc' = "probe" /\ err' = err
       ELSE Raise("OvsDbServerNotInstalled")
    /\ UNCHANGED <<env, db, run, log, db0, parsed, ovs_ifaces, t, lines,
                   entries, iface, del_cmd, call, caller>>

\* if not _ovs_active(): raise OvsDbServerNotRunning
CheckActive ==
    /\ pc = "probe"
    /\ LET argv == <<OVS_VSCTL_PATH, S("show")>>
           rc == IF active THEN Vsctl(argv, db).rc ELSE 1
       IN /\ log' = Append(log, Logged(argv, rc, "probe", <<>>))
          /\ IF rc = 0 THEN pc' = "parse" /\ err' = err
             ELSE Raise("OvsDbServerNotRunning")
    /\ UNCHANGED <<env, db, run, db0, parsed, ovs_ifaces, t, lines, entries,
                   iface, del_cmd, call, caller>>

\* config_manager.parse() and the loop that fills ovs_ifaces
Parse ==
    /\ pc = "parse"
    /\ parsed' = TRUE
    /\ ovs_ifaces' = OvsIfaces(netdefs)
    /\ t' = 1
    /\ pc' = "step1_list"
    /\ UNCHANGED <<env, db, run, err, log, db0, lines, entries, iface,
                   del_cmd, call, caller>>

\* step 1: out = subprocess.check_output([... 'list', t[0]])
Step1List ==
    /\ pc = "step1_list"
    /\ \E fails \in BOOLEAN :
        LET tbl == Step1Tables[t][1]
            argv == ListArgv(<<"name", ",", "external-ids">>, tbl)
        IN /\ CheckCall(argv, "step1_list", tbl, "step1_line", fails)
           /\ lines' = SplitLines(Exec(argv, fails).out)
    /\ UNCHANGED <<env, run, db0, parsed, ovs_ifaces, t, entries, iface,
                   del_cmd, call, caller>>

\* step 1: one turn of 'for line in out.splitlines()', up to the delete or
\* the br-exists it leads to; after the last line, the next table
Step1Line ==
    /\ pc = "step1_line"
    /\ IF lines = <<>>
       THEN /\ IF t < Len(Step1Tables)
               THEN t' = t + 1 /\ pc' = "step1_list"
               ELSE t' = 1 /\ pc' = "step2_list"
            /\ UNCHANGED <<lines, iface, del_cmd>>
       ELSE /\ lines' = Tail(lines)
            /\ t' = t
            /\ IF Stale(Head(lines), ovs_ifaces)
               THEN /\ iface' = Step1Iface(Head(lines))
                    /\ IF Step1Tables[t][1] = S("Interface")
                       THEN pc' = "step1_probe" /\ del_cmd' = del_cmd
                       ELSE pc' = "step1_delete"
                            /\ del_cmd' = Step1DelCmd(Step1Tables[t], 0)
               ELSE UNCHANGED <<pc, iface, del_cmd>>
    /\ UNCHANGED <<env, db, run, err, log, db0, parsed, ovs_ifaces, entries,
                   call, caller>>

\* step 1: subprocess.run([OVS_VSCTL_PATH, 'br-exists', iface]).returncode
Step1Probe ==
    /\ pc = "step1_probe"
    /\ \E fails \in BOOLEAN :
        LET argv == <<OVS_VSCTL_PATH, S("br-exists"), iface>>
            r == Exec(argv, fails)
        IN /\ log' = Append(log, Logged(argv, r.rc, "step1_probe", Step1Tables[t][1]))
           /\ del_cmd' = Step1DelCmd(Step1Tables[t], r.rc)
    /\ pc' = "step1_delete"
    /\ UNCHANGED <<env, db, run, err, db0, parsed, ovs_ifaces, t, lines,
                   entries, iface, call, caller>>

\* step 1: subprocess.check_call([OVS_VSCTL_PATH, '--if-exists', ..., iface])
Step1Delete ==
    /\ pc = "step1_delete"
    /\ \E fails \in BOOLEAN :
        CheckCall(DeleteArgv(del_cmd, iface), "step1_delete", Step1Tables[t][1],
                  "step1_line", fails)
    /\ UNCHANGED <<env, run, db0, parsed, ovs_ifaces, t, lines, entries,
                   iface, del_cmd, call, caller>>

\* step 2 on a list of the table taken before step 1
Step2ListEarly ==
    /\ pc = "step2_list"
    /\ \E fails \in BOOLEAN :
        LET tbl == Step2Tables[t]
            argv == ListArgv(Step2Cols(tbl), tbl)
        IN /\ CheckCall(argv, "step2_list", tbl, "step2_line", fails)
           /\ lines' = SplitLines(IF fails THEN <<>> ELSE Vsctl(argv, db0).out)
    /\ UNCHANGED <<env, run, db0, parsed, ovs_ifaces, t, entries, iface,
                   del_cmd, call, caller>>

\* step 2: out = subprocess.check_output([... 'list', t])
Step2List ==
    /\ pc = "step2_list"
    /\ \E fails \in BOOLEAN :
        LET tbl == Step2Tables[t]
            argv == ListArgv(Step2Cols(tbl), tbl)
        IN /\ CheckCall(argv, "step2_list", tbl, "step2_line", fails)
           /\ lines' = SplitLines(Exec(argv, fails).out)
    /\ UNCHANGED <<env, run, db0, parsed, ovs_ifaces, t, entries, iface,
                   del_cmd, call, caller>>

\* step 2: one turn of 'for line in out.splitlines()'; after the last line,
\* the next table, and after the last table the call returns
Step2Line ==
    /\ pc = "step2_line"
    /\ IF lines = <<>>
       THEN /\ IF t < Len(Step2Tables)
               THEN t' = t + 1 /\ pc' = "step2_list"
               ELSE t' = t /\ pc' = "done"
            /\ UNCHANGED <<lines, iface, entries>>
       ELSE /\ lines' = Tail(lines)
            /\ t' = t
            /\ IF Tagged(Head(lines))
               THEN /\ iface' = Step2Iface(Step2Tables[t], Head(lines))
                    /\ entries' = Entries(Step2Extids(Step2Tables[t], Head(lines)))
                    /\ pc' = "step2_entry"
               ELSE UNCHANGED <<pc, iface, entries>>
    /\ UNCHANGED <<env, db, run, err, log, db0, parsed, ovs_ifaces, del_cmd,
                   call, caller>>

\* step 2: one turn of 'for entry in extids.strip('"').split(' ')', up to
\* the call of clear_setting
Step2Entry ==
    /\ pc = "step2_entry"
    /\ IF entries = <<>>
       THEN pc' = "step2_line" /\ UNCHANGED <<entries, call>>
       ELSE /\ entries' = Tail(entries)
            /\ IF IsTag(Head(entries))
               THEN /\ type' = Step2Tables[t]
                    /\ setting' = SplitN(Head(entries), "=", 1)[1]
                    /\ value' = SplitN(Head(entries), "=", 1)[2]
                    /\ out' = <<>>
                    /\ pc' = "clear_setting"
               ELSE UNCHANGED <<pc, call>>
    /\ UNCHANGED <<env, db, run, err, log, db0, parsed, ovs_ifaces, t, lines,
                   iface, del_cmd, caller>>

-----------------------------------------------------------------------------
(* clear_setting(type, iface, setting, value) *)

frame == <<env, run, db0, parsed, ovs_ifaces, t, lines, entries, iface,
           del_cmd, type, setting, value, caller>>

\* clear_setting with a _del_global that skips a key it does not know
ClearSettingSkipUnknown ==
    /\ pc = "clear_setting"
    /\ IF Len(SplitN(setting, "/", 2)) < 2 THEN Raise("IndexError")
       ELSE IF ClearKind(setting) = "global"
       THEN (IF TagKey(setting) \in DOMAIN GLOBALS
             THEN pc' = "del_global_get" /\ err' = err
             ELSE pc' = "remove_tag" /\ err' = err)
       ELSE IF ClearKind(setting) = "dict"
       THEN pc' = "del_dict" /\ err' = err
       ELSE /\ pc' = (CASE DelColPlan(TagColumn(setting), value) = "remove" -> "del_col_remove"
                        [] DelColPlan(TagColumn(setting), value) = "set" -> "del_col_set"
                        [] OTHER -> "remove_tag")
            /\ err' = err
    /\ UNCHANGED <<frame, db, log, out>>

\* clear_setting up to the first invocation: the split of the tag and, in
\* _del_global, the lookup in GLOBALS
ClearSetting ==
    /\ pc = "clear_setting"
    /\ IF Len(SplitN(setting, "/", 2)) < 2 THEN Raise("IndexError")
       ELSE IF ClearKind(setting) = "global"
       THEN (IF TagKey(setting) \in DOMAIN GLOBALS
             THEN pc' = "del_global_get" /\ err' = err
             ELSE Raise("Exception"))
       ELSE IF ClearKind(setting) = "dict"
       THEN pc' = "del_dict" /\ err' = err
       ELSE /\ pc' = (CASE DelColPlan(TagColumn(setting), value) = "remove" -> "del_col_remove"
                        [] DelColPlan(TagColumn(setting), value) = "set" -> "del_col_set"
                        [] OTHER -> "remove_tag")
            /\ err' = err
    /\ UNCHANGED <<frame, db, log, out>>

\* _del_global: out = subprocess.check_output(args_get, text=True)
DelGlobalGet ==
    /\ pc = "del_global_get"
    /\ \E fails \in BOOLEAN :
        LET argv == ArgsGet(TagKey(setting), iface)
            text == Exec(argv, fails).out
        IN /\ CheckCall(argv, "del_global_get", type,
                        IF AllItemsIn(text, value) THEN "del_global_del"
                        ELSE "remove_tag", fails)
           /\ out' = text
    /\ UNCHANGED frame

\* _del_global: subprocess.check_call(args_del)
DelGlobalDel ==
    /\ pc = "del_global_del"
    /\ \E fails \in BOOLEAN :
        CheckCall(ArgsDel(TagKey(setting), iface), "del_global_del", type,
                  "remove_tag", fails)
    /\ UNCHANGED <<frame, out>>

\* _del_dict
DelDict ==
    /\ pc = "del_dict"
    /\ \E fails \in BOOLEAN :
        CheckCall(DelDictArgv(type, iface, TagColumn(setting), TagKey(setting), value),
                  "del_dict", type, "remove_tag", fails)
    /\ UNCHANGED <<frame, out>>

\* _del_col, no default: remove
DelColRemove ==
    /\ pc = "del_col_remove"
    /\ \E fails \in BOOLEAN :
        CheckCall(DelColRemoveArgv(type, iface, TagColumn(setting), value),
                  "del_col_remove", type, "remove_tag", fails)
    /\ UNCHANGED <<frame, out>>

\* _del_col, a default that is not the value: set
DelColSet ==
    /\ pc = "del_col_set"
    /\ \E fails \in BOOLEAN :
        CheckCall(DelColSetArgv(type, iface, TagColumn(setting)),
                  "del_col_set", type, "remove_tag", fails)
    /\ UNCHANGED <<frame, out>>

\* clear_setting: cleanup the tag itself, and return
RemoveTag ==
    /\ pc = "remove_tag"
    /\ \E fails \in BOOLEAN :
        CheckCall(RemoveTagArgv(type, iface, setting), "remove_tag", type,
                  IF caller = "direct" THEN "returned" ELSE "step2_entry", fails)
    /\ UNCHANGED <<frame, out>>

-----------------------------------------------------------------------------
(* The databases and configurations the calls start from *)

MaxRuns == 2

E(k, v) == <<k, v>>
MarkerEntry == E(S("netplan"), S("true"))
Tag(path, v) == E(TagPrefix \o path, v)

Cols(mcast, rstp, fail, lacp, mode) ==
    [c \in Columns |->
        IF c = S("mcast_snooping_enable") THEN mcast
        ELSE IF c = S("rstp_enable") THEN rstp
        ELSE IF c = S("fail_mode") THEN fail
        ELSE IF c = S("lacp") THEN lacp
        ELSE mode]

\* a variant of a row: its external-ids, its other-config and its columns
V(extids, other, cols) == [extids |-> extids, other |-> other, cols |-> cols]

Plain == Cols(S("false"), S("false"), <<>>, <<>>, <<>>)
Busy == Cols(S("true"), S("true"), S("secure"), S("active"), S("out-of-band"))

\* rows without any tag
Untagged == V(<<>>, <<>>, Busy)
\* rows with the marker alone
Marked == V(<<MarkerEntry>>, <<>>, Plain)
\* rows with the marker and one tag of each kind
ScalarTag == V(<<MarkerEntry, Tag(S("rstp_enable"), S("true"))>>, <<>>, Busy)
ScalarAtDefault ==
    V(<<MarkerEntry, Tag(S("mcast_snooping_enable"), S("false"))>>, <<>>, Plain)
OptionalTag == V(<<MarkerEntry, Tag(S("lacp"), S("active"))>>, <<>>, Busy)
DictTag ==
    V(<<E(S("iface-id"), S("myhostname")), MarkerEntry,
        Tag(<<"external-ids", "/", "iface-id">>, S("myhostname")),
        E(S("owner"), S("admin"))>>, <<>>, Plain)
OtherConfigTag ==
    V(<<MarkerEntry, Tag(<<"other-config", "/", "disable-in-band">>, S("true"))>>,
      <<E(S("disable-in-band"), S("true")), E(S("hwaddr"), S("aa"))>>, Plain)
FailModeTag ==
    V(<<MarkerEntry, Tag(<<"global", "/", "set-fail-mode">>, S("secure"))>>, <<>>, Busy)
ControllerTag ==
    V(<<MarkerEntry,
        Tag(<<"global", "/", "set-controller">>, <<"tcp:1", ",", "unix:2">>)>>,
      <<>>, Plain)
SslTag ==
    V(<<MarkerEntry,
        Tag(<<"global", "/", "set-ssl">>, <<"key.pem", ",", "cert.pem", ",", "ca.pem">>)>>,
      <<>>, Plain)
UnknownGlobalTag ==
    V(<<MarkerEntry, Tag(<<"global", "/", "set-manager">>, S("tcp:1"))>>, <<>>, Plain)
TwoTags ==
    V(<<MarkerEntry, Tag(S("mcast_snooping_enable"), S("true")),
        Tag(S("rstp_enable"), S("true"))>>, <<>>, Busy)
\* rows of another actor: no marker, but text that holds 'netplan=true' or
\* a word that starts with 'netplan/'
Lookalike == V(<<E(<<"not-", "netplan">>, S("true"))>>, <<>>, Busy)
SpacedValue ==
    V(<<E(S("note"), <<"see", " ", "netplan", "/", "rstp_enable", "=", "true">>)>>,
      <<>>, Busy)
\* a tag, and the same words in a value of another actor
TagAndNote ==
    V(<<MarkerEntry, Tag(S("rstp_enable"), S("true")),
        E(S("note"), <<"see", " ", "netplan", "/", "rstp_enable", "=", "true">>)>>,
      <<>>, Busy)
\* the tag of an external-ids entry that is the marker's pair
MarkerTag ==
    V(<<MarkerEntry, Tag(<<"external-ids", "/", "netplan">>, S("true"))>>, <<>>, Plain)
\* a tag on a row without the marker
TagOnly == V(<<Tag(S("rstp_enable"), S("true"))>>, <<>>, Busy)
ControllerModeTag ==
    V(<<Tag(S("connection-mode"), S("out-of-band"))>>, <<>>, Busy)

Slot(tbl, name, owner, fake, target, variants) ==
    [tbl |-> tbl, name |-> S(name), owner |-> owner, fake |-> fake,
     target |-> target, variants |-> variants]

TheSwitch(variants) == Slot("Open_vSwitch", ".", <<>>, FALSE, <<>>, variants)

Topologies ==
    { \* the bridges of the end-to-end scenario, with two controllers
      [ssl |-> {<<>>},
       slots |-> << Slot("Bridge", "ovs0", <<>>, FALSE, <<>>,
                         {Marked, ScalarTag, ScalarAtDefault, OptionalTag, DictTag,
                          OtherConfigTag, FailModeTag, ControllerTag, TwoTags,
                          UnknownGlobalTag}),
                    Slot("Bridge", "ovs1", <<>>, FALSE, <<>>, {Marked}),
                    Slot("Bridge", "legacy0", <<>>, FALSE, <<>>,
                         {Untagged, Lookalike, SpacedValue, TagOnly}),
                    Slot("Controller", "uuid1", S("ovs0"), FALSE, S("tcp:1"), {Untagged}),
                    Slot("Controller", "uuid2", S("ovs0"), FALSE, S("unix:2"), {Untagged}),
                    TheSwitch({Untagged}) >>],
      \* a bridge that owns a port that owns an interface
      [ssl |-> {<<>>},
       slots |-> << Slot("Bridge", "ovs1", <<>>, FALSE, <<>>, {Marked}),
                    Slot("Port", "bond0", S("ovs1"), FALSE, <<>>, {Marked, OptionalTag}),
                    Slot("Interface", "eth0", S("bond0"), FALSE, <<>>, {Marked, Untagged}),
                    TheSwitch({Untagged}) >>],
      \* a bond, a bridge and a patch port that do not own one another
      [ssl |-> {<<>>},
       slots |-> << Slot("Bridge", "legacy0", <<>>, FALSE, <<>>, {Untagged}),
                    Slot("Bridge", "ovs1", <<>>, FALSE, <<>>, {Marked}),
                    Slot("Port", "bond0", S("legacy0"), FALSE, <<>>, {Marked}),
                    Slot("Port", "patch0", S("legacy0"), FALSE, <<>>, {Untagged}),
                    Slot("Interface", "patch0", S("patch0"), FALSE, <<>>, {Marked, DictTag}),
                    TheSwitch({Untagged}) >>],
      \* a VLAN fake bridge
      [ssl |-> {<<>>},
       slots |-> << Slot("Bridge", "ovs0", <<>>, FALSE, <<>>, {Marked}),
                    Slot("Port", "ovs1", S("ovs0"), TRUE, <<>>, {Untagged}),
                    Slot("Interface", "ovs1", S("ovs1"), FALSE, <<>>, {Marked, ScalarTag}),
                    TheSwitch({Untagged}) >>],
      \* a bridge of another actor whose internal interface and whose
      \* bond's interface carry the marker
      [ssl |-> {<<>>},
       slots |-> << Slot("Bridge", "ovs1", <<>>, FALSE, <<>>, {Untagged}),
                    Slot("Port", "ovs1", S("ovs1"), FALSE, <<>>, {Untagged}),
                    Slot("Port", "bond0", S("ovs1"), FALSE, <<>>, {Untagged}),
                    Slot("Interface", "ovs1", S("ovs1"), FALSE, <<>>, {Marked}),
                    Slot("Interface", "eth0", S("bond0"), FALSE, <<>>, {Marked, OptionalTag}),
                    TheSwitch({Untagged}) >>],
      \* a bridge with the tag of its controllers, and a tag on a controller
      [ssl |-> {<<>>},
       slots |-> << Slot("Bridge", "ovs0", <<>>, FALSE, <<>>,
                         {ControllerTag, TagAndNote, MarkerTag}),
                    Slot("Controller", "uuid1", S("ovs0"), FALSE, S("tcp:1"),
                         {ControllerModeTag}),
                    Slot("Controller", "uuid2", S("ovs0"), FALSE, S("unix:2"), {Untagged}),
                    TheSwitch({Untagged}) >>],
      \* tags on the Open_vSwitch row and on a controller
      [ssl |-> {<<>>, <<S("key.pem"), S("cert.pem"), S("ca.pem")>>},
       slots |-> << Slot("Bridge", "ovs0", <<>>, FALSE, <<>>, {Marked, SslTag}),
                    Slot("Controller", "uuid1", S("ovs0"), FALSE, S("tcp:1"),
                         {Untagged, ControllerModeTag}),
                    TheSwitch({Untagged, DictTag, SslTag}) >>] }

RECURSIVE Picks(_)
Picks(slots) ==
    IF slots = <<>> THEN {<<>>}
    ELSE {<<v>> \o rest : v \in slots[1].variants, rest \in Picks(Tail(slots))}

RowOf(slot, v) ==
    [name |-> slot.name, owner |-> slot.owner, fake |-> slot.fake,
     extids |-> v.extids, other |-> v.other, cols |-> v.cols,
     target |-> slot.target]

RECURSIVE RowsOf(_, _, _)
RowsOf(slots, pick, tbl) ==
    IF slots = <<>> THEN <<>>
    ELSE (IF slots[1].tbl = tbl THEN <<RowOf(slots[1], pick[1])>> ELSE <<>>)
         \o RowsOf(Tail(slots), Tail(pick), tbl)

Database(slots, pick, ssl) ==
    [Port |-> RowsOf(slots, pick, "Port"),
     Bridge |-> RowsOf(slots, pick, "Bridge"),
     Interface |-> RowsOf(slots, pick, "Interface"),
     Open_vSwitch |-> RowsOf(slots, pick, "Open_vSwitch"),
     Controller |-> RowsOf(slots, pick, "Controller"),
     SSL |-> ssl]

Databases ==
    UNION {{Database(topo.slots, pick, ssl) : pick \in Picks(topo.slots), ssl \in topo.ssl}
           : topo \in Topologies}

Backends == {"OpenVSwitch", "networkd"}

\* config_manager.netdefs after parse(): some of the names, each with a backend
Configurations ==
    UNION {[names -> Backends] : names \in SUBSET {S("ovs0"), S("ovs1")}}

Idle ==
    /\ run = 1
    /\ pc = "start"
    /\ err = "none"
    /\ log = <<>>
    /\ parsed = FALSE
    /\ ovs_ifaces = {}
    /\ t = 1
    /\ lines = <<>>
    /\ entries = <<>>
    /\ iface = <<>>
    /\ del_cmd = <<>>
    /\ type = <<>>
    /\ setting = <<>>
    /\ value = <<>>
    /\ out = <<>>

Init ==
    /\ installed \in BOOLEAN
    /\ active \in BOOLEAN
    /\ netdefs \in Configurations
    /\ db \in Databases
    /\ db0 = db
    /\ caller = "apply_ovs_cleanup"
    /\ Idle

\* apply_ovs_cleanup is called again, on the same configuration, after a call
\* that returned
StartRun ==
    /\ pc = "done"
    /\ run < MaxRuns
    /\ run' = run + 1
    /\ pc' = "start"
    /\ log' = <<>>
    /\ db0' = db
    /\ parsed' = FALSE
    /\ ovs_ifaces' = {}
    /\ t' = 1
    /\ type' = <<>> /\ setting' = <<>> /\ value' = <<>> /\ out' = <<>>
    /\ iface' = <<>> /\ del_cmd' = <<>>
    /\ UNCHANGED <<env, db, err, lines, entries, caller>>

Next ==
    \/ CheckInstalled
    \/ CheckActive
    \/ Parse
    \/ Step1List
    \/ Step1Line
    \/ Step1Probe
    \/ Step1Delete
    \/ Step2List
    \/ Step2Line
    \/ Step2Entry
    \/ ClearSetting
    \/ DelGlobalGet
    \/ DelGlobalDel
    \/ DelDict
    \/ DelColRemove
    \/ DelColSet
    \/ RemoveTag
    \/ StartRun

Spec == Init /\ [][Next]_vars

-----------------------------------------------------------------------------
(* clear_setting called on its own: one call, on a bridge or on the        *)
(* Open_vSwitch row, with a tag and a recorded value, against a database   *)
(* whose live values may or may not be the recorded ones.                  *)

Settings ==
    { TagPrefix \o S("rstp_enable"),
      TagPrefix \o S("mcast_snooping_enable"),
      TagPrefix \o S("lacp"),
      TagPrefix \o S("global"),
      TagPrefix \o <<"external-ids", "/", "iface-id">>,
      TagPrefix \o <<"other-config", "/", "disable-in-band">>,
      TagPrefix \o <<"other-config", "/", "a", "/", "b">>,
      TagPrefix \o <<"global", "/", "set-fail-mode">>,
      TagPrefix \o <<"global", "/", "set-controller">>,
      TagPrefix \o <<"global", "/", "set-ssl">>,
      TagPrefix \o <<"global", "/", "set-manager">> }

Values ==
    { S("true"), S("false"), S("active"), S("secure"), S("myhostname"),
      S("tcp:1"), <<"tcp:1", ",", "unix:2">>,
      <<"key.pem", ",", "cert.pem", ",", "ca.pem">> }

\* what the row holds besides the tag
LiveExtids ==
    { <<E(S("iface-id"), S("myhostname")), E(S("owner"), S("admin"))>>,
      <<E(S("iface-id"), S("true")), E(S("owner"), S("myhostname"))>> }
LiveOther ==
    { <<E(<<"a", "/", "b">>, S("true")), E(S("disable-in-band"), S("true")),
        E(S("hwaddr"), S("true"))>>,
      <<E(S("disable-in-band"), S("false"))>> }
LiveCols == {Plain, Busy, Cols(S("true"), S("false"), S("standalone"), S("passive"), <<>>)}
LiveControllers ==
    { <<>>, <<S("tcp:1")>>, <<S("tcp:1"), S("unix:2")>>,
      <<<<"tcp:1", "3">>, S("unix:2")>>, <<S("tcp:1"), S("unix:2"), S("tcp:9")>> }
LiveSsl ==
    { <<>>, <<S("key.pem"), S("cert.pem"), S("ca.pem")>>,
      <<S("key.pem"), S("other.pem"), S("ca.pem")>> }

ControllerRows(targets) ==
    [i \in 1..Len(targets) |->
        [name |-> <<"uuid", i>>, owner |-> S("ovs0"), fake |-> FALSE,
         extids |-> <<>>, other |-> <<>>, cols |-> Plain, target |-> targets[i]]]

ClearDatabase(extids, other, cols, targets, ssl) ==
    [Port |-> <<>>,
     Bridge |-> <<[name |-> S("ovs0"), owner |-> <<>>, fake |-> FALSE,
                   extids |-> extids, other |-> other, cols |-> cols,
                   target |-> <<>>]>>,
     Interface |-> <<>>,
     Open_vSwitch |-> <<[name |-> S("."), owner |-> <<>>, fake |-> FALSE,
                         extids |-> extids, other |-> other, cols |-> cols,
                         target |-> <<>>]>>,
     Controller |-> ControllerRows(targets),
     SSL |-> ssl]

\* the external-ids of the tagged row: what it holds besides, and the tag
WithTag(extids, key, val) == extids \o <<E(key, val)>>

InitClear ==
    /\ installed = TRUE
    /\ active = TRUE
    /\ netdefs = [n \in {} |-> "OpenVSwitch"]
    /\ caller = "direct"
    /\ setting \in Settings
    /\ value \in Values
    /\ \E tbl \in {"Bridge", "Open_vSwitch"} :
        /\ type = S(tbl)
        /\ iface = IF tbl = "Bridge" THEN S("ovs0") ELSE S(".")
    /\ \E x \in LiveExtids, o \in LiveOther, c \in LiveCols,
          g \in LiveControllers, k \in LiveSsl :
        db = ClearDatabase(WithTag(x, setting, value), o, c, g, k)
    /\ db0 = db
    /\ run = 1 /\ pc = "clear_setting" /\ err = "none" /\ log = <<>>
    /\ parsed = FALSE /\ ovs_ifaces = {} /\ t = 1
    /\ lines = <<>> /\ entries = <<>> /\ del_cmd = <<>> /\ out = <<>>

NextClear ==
    \/ ClearSetting
    \/ DelGlobalGet
    \/ DelGlobalDel
    \/ DelDict
    \/ DelColRemove
    \/ DelColSet
    \/ RemoveTag

SpecClear == InitClear /\ [][NextClear]_vars

-----------------------------------------------------------------------------
(* What the log and the database say *)

Cmd(c) == c.argv[2]

IsDelete(c) ==
    \/ Cmd(c) \in {S("del-port"), S("del-br"), S("del-bond-iface")}
    \/ /\ Cmd(c) = S("--if-exists")
       /\ c.argv[3] \in {S("del-port"), S("del-br"), S("del-bond-iface")}

\* the name a delete command is issued for
Deleted(c) == c.argv[Len(c.argv)]

IsGlobalDel(c) == Cmd(c) \in {S("del-ssl"), S("del-fail-mode"), S("del-controller")}

\* a command that changes the database: a delete, a set or a remove
Mutating(c) == IsDelete(c) \/ IsGlobalDel(c) \/ Cmd(c) \in {S("set"), S("remove")}

\* the row carries the marker netplan=true in its external-ids
CarriesMarker(r) == \E i \in 1..Len(r.extids) : r.extids[i] = MarkerEntry

RowsIn(d, tbl) == Range(d[tbl])

Returned == pc = "done"

\* C1 (as stated): no delete command is issued for a Port, Bridge or
\* Interface row that does not carry the marker netplan=true, and no set or
\* remove command for a row that holds no netplan/ tag at all.
C1_NonInterference ==
    \A i \in 1..Len(log) :
        LET c == log[i] IN
        /\ IsDelete(c) =>
              \A r \in RowsIn(db0, c.t[1]) : r.name = Deleted(c) => CarriesMarker(r)
        /\ Cmd(c) \in {S("set"), S("remove")} =>
              \A r \in RowsIn(db0, c.t[1]) :
                  (c.t[1] = "Open_vSwitch" \/ r.name = c.argv[4]) =>
                      \E j \in 1..Len(r.extids) : StartsWith(r.extids[j][1], TagPrefix)

\* C2 (as stated): a second call on the same configuration, after a call
\* that returned, issues no delete, set or remove command and leaves the
\* database as the first call left it.
C2_Idempotence ==
    (run = 2 /\ Returned) =>
        /\ \A i \in 1..Len(log) : ~Mutating(log[i])
        /\ db = db0

\* a delete issued in step 1 while table tbl is visited, for the row `name'
DelFor(c, tbl, name) == c.at = "step1_delete" /\ c.t = S(tbl) /\ Deleted(c) = name

\* the configuration declares the name with the backend OpenVSwitch
DeclaredOvs(name) == name \in DOMAIN netdefs /\ netdefs[name] = "OpenVSwitch"

\* a bridge that owns a port that owns an interface, all three with the
\* marker and none of them declared
Chains(d) ==
    {c \in RowsIn(d, "Bridge") \X RowsIn(d, "Port") \X RowsIn(d, "Interface") :
        /\ c[2].owner = c[1].name /\ c[3].owner = c[2].name
        /\ \A k \in 1..3 : CarriesMarker(c[k]) /\ c[k].name \notin DOMAIN netdefs}

Rank(tbl) == IF tbl = S("Port") THEN 1 ELSE IF tbl = S("Bridge") THEN 2 ELSE 3

\* the deletes of step 1 come table by table: Port, Bridge, Interface
DeletesInTableOrder ==
    \A i, j \in 1..Len(log) :
        (i < j /\ log[i].at = "step1_delete" /\ log[j].at = "step1_delete")
            => Rank(log[i].t) <= Rank(log[j].t)

\* C3 (as stated): for a bridge that owns a port that owns an interface, all
\* three marked and stale, a delete is issued for the port, then for the
\* bridge, then for the interface.
C3_ThreeDeletes ==
    Returned =>
        \A c \in Chains(db0) :
            \E i, j, k \in 1..Len(log) :
                /\ i < j /\ j < k
                /\ DelFor(log[i], "Port", c[2].name)
                /\ DelFor(log[j], "Bridge", c[1].name)
                /\ DelFor(log[k], "Interface", c[3].name)

\* C3 (amended): every delete of step 1 for a Port row precedes every delete
\* for a Bridge row, which precedes every delete for an Interface row; for a
\* bridge that owns a port that owns an interface, all three marked and
\* stale, a delete is issued for the port and then for the bridge, and none
\* for the interface, which is gone with its port when the Interface table
\* is listed.
C3_DeleteOrder ==
    /\ DeletesInTableOrder
    /\ Returned =>
        \A c \in Chains(db0) :
            /\ \E i, j \in 1..Len(log) :
                /\ i < j
                /\ DelFor(log[i], "Port", c[2].name)
                /\ DelFor(log[j], "Bridge", c[1].name)
            /\ \A k \in 1..Len(log) : ~DelFor(log[k], "Interface", c[3].name)

C3_Witness ==
    /\ Returned
    /\ Chains(db0) # {}
    /\ \E i, j \in 1..Len(log) :
        i < j /\ log[i].t = S("Port") /\ IsDelete(log[i])
              /\ log[j].t = S("Bridge") /\ IsDelete(log[j])

\* C4: after a call that returned, no row of Port, Bridge or Interface that
\* carried netplan=true and whose name is not declared with the backend
\* OpenVSwitch is left, and no delete was issued that names an interface
\* declared with the backend OpenVSwitch.
C4_StaleRemoved ==
    /\ Returned =>
        \A tbl \in {"Port", "Bridge", "Interface"} :
            \A r \in RowsIn(db0, tbl) :
                (CarriesMarker(r) /\ ~DeclaredOvs(r.name)) => ~HasRow(db, tbl, r.name)
    /\ \A i \in 1..Len(log) : IsDelete(log[i]) => ~DeclaredOvs(Deleted(log[i]))

C4_Witness ==
    /\ Returned /\ run = 1
    /\ DeclaredOvs(S("ovs0"))
    /\ S("ovs1") \in DOMAIN netdefs /\ netdefs[S("ovs1")] = "networkd"
    /\ \E r \in RowsIn(db0, "Bridge") : r.name = S("ovs1") /\ CarriesMarker(r)
    /\ ~HasRow(db, "Bridge", S("ovs1"))
    /\ HasRow(db, "Bridge", S("ovs0"))
    /\ \E r \in RowsIn(db0, "Bridge") : r.name = S("legacy0") /\ r \in RowsIn(db, "Bridge")

\* C9: without the tool the call raises OvsDbServerNotInstalled, and with
\* the tool but without a running server OvsDbServerNotRunning; either is
\* raised before the configuration is parsed and before any list, delete,
\* set or remove command, and the database is as it was.
C9_FailFast ==
    /\ (~installed /\ pc # "start") =>
            pc = "failed" /\ err = "OvsDbServerNotInstalled" /\ log = <<>>
    /\ (installed /\ ~active /\ pc \notin {"start", "probe"}) =>
            /\ pc = "failed" /\ err = "OvsDbServerNotRunning"
            /\ \A i \in 1..Len(log) : Cmd(log[i]) = S("show")
    /\ err \in {"OvsDbServerNotInstalled", "OvsDbServerNotRunning"} =>
            ~parsed /\ db = db0 /\ (~installed \/ ~active)

C9_Witness ==
    /\ pc = "failed" /\ err = "OvsDbServerNotRunning" /\ installed /\ ~active
    /\ \E tbl \in Tables : \E r \in RowsIn(db, tbl) : CarriesMarker(r)

\* the database after the commands of a log that exited 0, in their order
RECURSIVE Replay(_, _)
Replay(d, l) ==
    IF l = <<>> THEN d
    ELSE Replay(IF l[1].rc = 0 THEN Vsctl(l[1].argv, d).db ELSE d, Tail(l))

\* C10 (as stated): whenever a command exits non-zero the call ends in an
\* error at that command.
C10_AnyNonZeroAborts ==
    \A i \in 1..Len(log) : log[i].rc # 0 => (i = Len(log) /\ pc = "failed")

\* C10 (amended): whenever a command other than the probe br-exists exits
\* non-zero, the call ends in an error at that command: it is the last
\* command of the call, and what the earlier commands did stays done.  A
\* non-zero exit of br-exists is the answer "not a bridge": the call goes on
\* with del-bond-iface for the same name.
C10_AbortOnFailure ==
    /\ \A i \in 1..Len(log) :
        (log[i].rc # 0 /\ Cmd(log[i]) # S("br-exists")) =>
            /\ i = Len(log)
            /\ pc = "failed"
            /\ err \in {"CalledProcessError", "OvsDbServerNotRunning"}
    /\ \A i \in 1..Len(log) :
        (log[i].rc # 0 /\ Cmd(log[i]) = S("br-exists") /\ i < Len(log)) =>
            log[i+1].argv = <<OVS_VSCTL_PATH, S("--if-exists"), S("del-bond-iface"),
                              log[i].argv[3]>>
    /\ db = Replay(db0, log)

C10_Witness ==
    /\ pc = "failed" /\ err = "CalledProcessError"
    /\ db # db0
    /\ \E i \in 1..Len(log) : Mutating(log[i]) /\ log[i].rc = 0
    /\ log[Len(log)].rc # 0 /\ Mutating(log[Len(log)])

-----------------------------------------------------------------------------
(* clear_setting: what one call did *)

CallReturned == pc = "returned"

\* the row the call is about, in database d
TheRow(d) == d[type[1]][FindRow(d, type[1], iface)]

\* netplan/global/<command>
IsGlobalTag(key) ==
    Len(key) >= 5 /\ SubSeq(key, 1, 4) = <<"netplan", "/", "global", "/">>
GlobalCommand(key) == SubSeq(key, 5, Len(key))
KnownGlobal(key) ==
    IsGlobalTag(key)
    /\ GlobalCommand(key) \in {S("set-ssl"), S("set-fail-mode"), S("set-controller")}

\* netplan/<column> for a column with a registered default
IsDefaultTag(key) ==
    key \in {TagPrefix \o S("mcast_snooping_enable"), TagPrefix \o S("rstp_enable")}

\* netplan/<column>/<key>, the column other than global
IsMapTag(key) ==
    /\ Len(key) >= 5 /\ SubSeq(key, 1, 2) = TagPrefix /\ key[4] = "/"
    /\ key[3] \notin {"/", "global"}
MapColumn(key) == S(key[3])
MapKey(key) == SubSeq(key, 5, Len(key))
MapOf(r, column) == IF column = S("external-ids") THEN r.extids ELSE r.other

\* the removal of the tag of the call from external-ids
IsTagRemoval(c) ==
    c.argv = <<OVS_VSCTL_PATH, S("remove"), type, iface, S("external-ids"), setting>>

\* every comma-separated token of val is in the text
EveryTokenPresent(text, val) ==
    \A tok \in Range(Split(val, ",")) : Contains(text, tok)

\* C5: for a tag netplan/global/<command> the call issues the del command
\* only after a get command whose text holds every comma-separated token of
\* the recorded value; when a token is missing it issues no del command,
\* and still removes the tag, without an error.
C5_GlobalGuard ==
    KnownGlobal(setting) =>
        /\ \A i \in 1..Len(log) :
            IsGlobalDel(log[i]) =>
                /\ i = 2 /\ log[1].rc = 0
                /\ Cmd(log[1]) \in {S("get-ssl"), S("get-fail-mode"), S("get-controller")}
                /\ out = Vsctl(log[1].argv, db0).out
                /\ EveryTokenPresent(out, value)
        /\ (Len(log) >= 1 /\ log[1].rc = 0 /\ ~EveryTokenPresent(out, value)) =>
            /\ \A i \in 1..Len(log) : ~IsGlobalDel(log[i])
            /\ pc \in {"remove_tag", "returned", "failed"}
            /\ CallReturned =>
                /\ Len(log) = 2 /\ IsTagRemoval(log[2]) /\ err = "none"
                /\ \A j \in 1..Len(TheRow(db).extids) : TheRow(db).extids[j][1] # setting
            /\ pc = "failed" => (IsTagRemoval(log[Len(log)]) /\ log[Len(log)].rc # 0)

C5_Witness ==
    /\ CallReturned
    /\ setting = TagPrefix \o <<"global", "/", "set-controller">>
    /\ value = <<"tcp:1", ",", "unix:2">>
    /\ Contains(out, S("tcp:1")) /\ ~Contains(out, S("unix:2"))
    /\ \A i \in 1..Len(log) : ~IsGlobalDel(log[i])
    /\ IsTagRemoval(log[Len(log)])

\* C6: for a tag of a column with a registered default (mcast_snooping_enable,
\* rstp_enable) the call sets the column to the default when the recorded
\* value is not the default and issues no value-level command when it is;
\* it never removes the column, and the one other command is the removal of
\* the tag.
C6_DefaultReset ==
    IsDefaultTag(setting) =>
        LET column == S(setting[3])
            reset == <<OVS_VSCTL_PATH, S("set"), type, iface, column \o <<"=", "false">>>>
        IN /\ \A i \in 1..Len(log) :
                /\ Cmd(log[i]) = S("remove") => IsTagRemoval(log[i])
                /\ Cmd(log[i]) = S("set") => (value # S("false") /\ i = 1 /\ log[i].argv = reset)
                /\ Cmd(log[i]) \in {S("set"), S("remove")}
           /\ CallReturned =>
                /\ Len(log) = (IF value = S("false") THEN 1 ELSE 2)
                /\ IsTagRemoval(log[Len(log)])
                /\ value # S("false") =>
                     (log[1].argv = reset /\ TheRow(db).cols[column] = S("false"))
                /\ value = S("false") => TheRow(db).cols = TheRow(db0).cols

C6_Witness ==
    /\ CallReturned
    /\ setting = TagPrefix \o S("mcast_snooping_enable")
    /\ value = S("true")
    /\ TheRow(db0).cols[S("mcast_snooping_enable")] = S("true")
    /\ TheRow(db).cols[S("mcast_snooping_enable")] = S("false")
    /\ Cmd(log[1]) = S("set")

\* C7 (as stated): for a tag netplan/<column>/<key> with recorded value v
\* the call removes from the row's <column> the pair <key>=v and nothing
\* else.
C7_OnlyThePair ==
    (IsMapTag(setting) /\ CallReturned) =>
        LET keep(e) == e # E(MapKey(setting), value) IN
        MapOf(TheRow(db), MapColumn(setting))
            = SelectSeq(MapOf(TheRow(db0), MapColumn(setting)), keep)

\* C7 (amended): for a tag netplan/<column>/<key> with recorded value v the
\* call removes from the row's <column> the pair <key>=v and, when <column>
\* is external-ids, the tag itself, which the removal of the tag takes from
\* external-ids; every other key of the column, and <key> itself when its
\* live value is not v, is as before, and so are the other columns.
C7_MapEntryPrecision ==
    (IsMapTag(setting) /\ CallReturned) =>
        LET keep(e) == e # E(MapKey(setting), value) /\ e[1] # setting
            keepTag(e) == e[1] # setting
            before == TheRow(db0)
            after == TheRow(db)
        IN /\ MapOf(after, MapColumn(setting))
                = SelectSeq(MapOf(before, MapColumn(setting)), keep)
           /\ MapColumn(setting) # S("external-ids") =>
                after.extids = SelectSeq(before.extids, keepTag)
           /\ MapColumn(setting) # S("other-config") => after.other = before.other
           /\ after.cols = before.cols

C7_Witness ==
    /\ CallReturned
    /\ setting = TagPrefix \o <<"external-ids", "/", "iface-id">>
    /\ value = S("myhostname")
    /\ E(S("iface-id"), S("myhostname")) \in Range(TheRow(db0).extids)
    /\ E(S("iface-id"), S("myhostname")) \notin Range(TheRow(db).extids)
    /\ E(S("owner"), S("admin")) \in Range(TheRow(db).extids)

\* C8: a call that returns has issued, as its last command and only then,
\* the removal of exactly its tag from the external-ids of its row, whether
\* or not a command that changes a value came before it.
C8_TagRemovedLast ==
    /\ \A i \in 1..Len(log) : IsTagRemoval(log[i]) => i = Len(log)
    /\ CallReturned =>
        /\ Len(log) >= 1
        /\ IsTagRemoval(log[Len(log)]) /\ log[Len(log)].rc = 0
        /\ \A j \in 1..Len(TheRow(db).extids) : TheRow(db).extids[j][1] # setting
    /\ pc = "failed" =>
        \/ err = "CalledProcessError" /\ log[Len(log)].rc # 0
        \/ err = "Exception" /\ IsGlobalTag(setting) /\ ~KnownGlobal(setting) /\ log = <<>>

C8_Witness ==
    /\ CallReturned
    /\ IsGlobalTag(setting)
    /\ Len(log) = 2 /\ IsTagRemoval(log[2]) /\ ~Mutating(log[1])
    /\ ~EveryTokenPresent(out, value)

-----------------------------------------------------------------------------
(* apply_ovs_cleanup: the tags of step 2 *)

\* the commands of _del_global
IsGlobalGet(c) == Cmd(c) \in {S("get-ssl"), S("get-fail-mode"), S("get-controller")}

\* C11: a tag netplan/global/<key> whose key is none of set-ssl,
\* set-fail-mode and set-controller ends the call of apply_ovs_cleanup with
\* an Exception as soon as clear_setting is called on it: no get and no del
\* command is issued for it, the last command of the call is the list of
\* the table or the removal of the tag before it, and the tag is still there.
C11_UnknownGlobalFatal ==
    /\ (IsGlobalTag(setting) /\ ~KnownGlobal(setting)) =>
        \/ pc = "clear_setting"
        \/ /\ pc = "failed" /\ err = "Exception"
           /\ Len(log) >= 1
           /\ log[Len(log)].at \in {"step2_list", "remove_tag"}
           /\ log[Len(log)].rc = 0
           /\ log[Len(log)].t = type
           /\ \A i \in 1..Len(log) :
                (IsGlobalGet(log[i]) \/ IsGlobalDel(log[i])) =>
                    \E j \in (i+1)..Len(log) : log[j].at = "remove_tag"
           /\ \E j \in 1..Len(TheRow(db).extids) : TheRow(db).extids[j][1] = setting
    /\ err = "Exception" =>
        pc = "failed" /\ IsGlobalTag(setting) /\ ~KnownGlobal(setting)

\* the call ended on the unknown key of a bridge, with the tables after
\* Bridge not listed
C11_Witness ==
    /\ pc = "failed" /\ err = "Exception"
    /\ setting = TagPrefix \o <<"global", "/", "set-manager">>
    /\ type = S("Bridge") /\ iface = S("ovs0")
    /\ \A i \in 1..Len(log) :
        log[i].at = "step2_list" => log[i].t \in {S("Port"), S("Bridge")}

-----------------------------------------------------------------------------
(* clear_setting: the live value of a global setting *)

\* the comma-separated tokens of a recorded value
Tokens(val) == Range(Split(val, ","))

\* the values that the global setting of a tag holds in database d: the
\* targets of the bridge's controllers, its fail mode, the files of the SSL
\* configuration
LiveGlobal(d, key, name) ==
    IF GlobalCommand(key) = S("set-ssl") THEN Range(d.SSL)
    ELSE IF GlobalCommand(key) = S("set-controller")
    THEN {r.target : r \in {x \in RowsIn(d, "Controller") : x.owner = name}}
    ELSE {r.cols[S("fail_mode")] : r \in {x \in RowsIn(d, "Bridge") : x.name = name}}
            \ {<<>>}

\* C12 (as stated): for a tag netplan/global/<command> the del command is
\* issued only when the live value of the global setting is exactly the
\* recorded value(s); when the live value holds a value that is no token of
\* the recorded value, no del command is issued.
C12_ExactValueOnly ==
    KnownGlobal(setting) =>
        \A i \in 1..Len(log) :
            IsGlobalDel(log[i]) => LiveGlobal(db0, setting, iface) = Tokens(value)

-----------------------------------------------------------------------------
(* apply_ovs_cleanup: the two steps *)

Step1Positions == {"step1_list", "step1_probe", "step1_delete"}
Step2Positions ==
    {"step2_list", "del_global_get", "del_global_del", "del_dict",
     "del_col_remove", "del_col_set", "remove_tag"}

\* a delete of step 1 that exited 0, for the row `name' of table tbl
DeletedInStep1(tbl, name) ==
    \E i \in 1..Len(log) :
        log[i].at = "step1_delete" /\ log[i].rc = 0
        /\ log[i].t = tbl /\ Deleted(log[i]) = name

\* C13: in a call every list, probe and delete command of step 1 comes
\* before the first command of step 2, so every table of step 2 is listed
\* after the last delete of step 1; and clear_setting is never called on a
\* row that step 1 deleted in the same call: the row it is called on is in
\* the database.
C13_PhaseSeparation ==
    /\ \A i, j \in 1..Len(log) :
        (i < j /\ log[j].at \in Step1Positions) =>
            log[i].at \in Step1Positions \cup {"probe"}
    /\ \A i \in 1..Len(log) :
        log[i].at \in Step1Positions \cup Step2Positions \cup {"probe"}
    /\ (pc = "clear_setting" /\ caller = "apply_ovs_cleanup") =>
        /\ ~DeletedInStep1(type, iface)
        /\ HasRow(db, type[1], iface)
        /\ log[Len(log)].at \in {"step2_list", "remove_tag"}

\* step 1 deleted a bridge that carried a tag, and step 2 cleaned the tag
\* of a bridge that is still there and none of the deleted one
C13_Witness ==
    /\ Returned /\ run = 1
    /\ DeletedInStep1(S("Bridge"), S("ovs0"))
    /\ \E r \in RowsIn(db0, "Bridge") :
        r.name = S("ovs0") /\ \E j \in 1..Len(r.extids) : StartsWith(r.extids[j][1], TagPrefix)
    /\ \E i \in 1..Len(log) : log[i].at = "remove_tag" /\ log[i].argv[4] = S("legacy0")
    /\ \A i \in 1..Len(log) :
        Cmd(log[i]) \in {S("set"), S("remove")} => log[i].argv[4] # S("ovs0")

-----------------------------------------------------------------------------
(* clear_setting: the three kinds of tag *)

\* netplan/<column>: two segments
IsScalarTag(key) ==
    Len(key) = 3 /\ SubSeq(key, 1, 2) = TagPrefix /\ key[3] # "/"

\* the positions of the commands of each cleaner
ScalarPositions == {"del_col_remove", "del_col_set"}
GlobalPositions == {"del_global_get", "del_global_del"}
MapPositions == {"del_dict"}

\* the positions a call on the key can be at, once the key is split
KindPositions(key) ==
    IF IsScalarTag(key) THEN ScalarPositions
    ELSE IF IsGlobalTag(key) THEN GlobalPositions
    ELSE IF IsMapTag(key) THEN MapPositions
    ELSE {}

\* the get command of a global command
GetCommandFor(command) ==
    IF command = S("set-ssl") THEN S("get-ssl")
    ELSE IF command = S("set-fail-mode") THEN S("get-fail-mode")
    ELSE S("get-controller")

\* C14: clear_setting calls one cleaner for a key netplan/<p1>[/<rest>]:
\* _del_col on column <p1> when the key has two segments (netplan/global
\* among them), _del_global on <rest> when <p1> is global and there is a
\* third part, _del_dict on column <p1> and key <rest> otherwise; <rest> is
\* all that follows the second slash, further slashes included.
C14_TagClassification ==
    /\ IsScalarTag(setting) \/ IsGlobalTag(setting) \/ IsMapTag(setting)
    /\ pc \in KindPositions(setting) \cup {"clear_setting", "remove_tag", "returned", "failed"}
    /\ \A i \in 1..Len(log) :
        LET c == log[i]
            p1 == S(setting[3])
            rest == SubSeq(setting, 5, Len(setting))
        IN /\ c.at \in KindPositions(setting) \cup {"remove_tag"}
           /\ c.at = "remove_tag" => IsTagRemoval(c)
           /\ c.at = "del_col_remove" =>
                c.argv = <<OVS_VSCTL_PATH, S("remove"), type, iface, p1, value>>
           /\ c.at = "del_col_set" =>
                c.argv = <<OVS_VSCTL_PATH, S("set"), type, iface, p1 \o <<"=", "false">>>>
           /\ c.at = "del_dict" =>
                c.argv = <<OVS_VSCTL_PATH, S("remove"), type, iface, p1,
                           rest \o S("=") \o S("\"") \o value \o S("\"")>>
           /\ c.at = "del_global_get" =>
                (i = 1 /\ KnownGlobal(setting) /\ Cmd(c) = GetCommandFor(rest))
           /\ c.at = "del_global_del" => i = 2
    /\ (pc = "failed" /\ log = <<>>) => (err = "Exception" /\ IsGlobalTag(setting))

\* the key netplan/other-config/a/b: the pair a/b=true is gone from
\* other-config
C14_Witness ==
    /\ CallReturned
    /\ setting = TagPrefix \o <<"other-config", "/", "a", "/", "b">>
    /\ value = S("true")
    /\ log[1].at = "del_dict"
    /\ E(<<"a", "/", "b">>, S("true")) \in Range(TheRow(db0).other)
    /\ E(<<"a", "/", "b">>, S("true")) \notin Range(TheRow(db).other)

-----------------------------------------------------------------------------
(* apply_ovs_cleanup: the deletes of step 1 *)

\* the database when the k-th command of the call was issued
DbAt(k) == Replay(db0, SubSeq(log, 1, k-1))

\* the rows of table tbl that were stale when step 1 listed the table: they
\* carried the marker and the configuration did not declare them
StaleWhenListed(tbl) ==
    UNION {{r \in RowsIn(DbAt(k), tbl) : CarriesMarker(r) /\ ~DeclaredOvs(r.name)}
           : k \in {i \in 1..Len(log) : log[i].at = "step1_list" /\ log[i].t = S(tbl)
                                         /\ log[i].rc = 0}}

DeletesFor(tbl, name) == {i \in 1..Len(log) : DelFor(log[i], tbl, name)}

-----------------------------------------------------------------------------
(* clear_setting: scalar tags *)

\* C16: for a tag netplan/<column> whose column has no registered default
\* the first command of the call is 'remove <type> <iface> <column> <value>'
\* with the recorded value; once it exited 0 the column is empty if its live
\* value was the recorded one and is as it was if not, and no other column
\* has changed.
C16_ScalarOwnership ==
    (IsScalarTag(setting) /\ ~IsDefaultTag(setting)) =>
        LET column == S(setting[3])
            before == TheRow(db0).cols
            after == TheRow(db).cols
        IN /\ pc \notin {"del_col_set", "del_dict", "del_global_get", "del_global_del"}
           /\ (pc \in {"remove_tag", "returned"}) => (Len(log) >= 1 /\ log[1].rc = 0)
           /\ Len(log) >= 1 =>
                log[1].argv = <<OVS_VSCTL_PATH, S("remove"), type, iface, column, value>>
           /\ Len(log) >= 2 => (Len(log) = 2 /\ IsTagRemoval(log[2]))
           /\ \A c \in DOMAIN before :
                after[c] = IF c = column /\ Len(log) >= 1 /\ log[1].rc = 0
                              /\ before[c] = value
                           THEN <<>> ELSE before[c]

\* the tag records lacp=active and the live value is passive: it stays
C16_Witness ==
    /\ CallReturned
    /\ setting = TagPrefix \o S("lacp")
    /\ value = S("active")
    /\ TheRow(db0).cols[S("lacp")] = S("passive")
    /\ TheRow(db).cols[S("lacp")] = S("passive")
    /\ Cmd(log[1]) = S("remove") /\ log[1].argv[6] = S("active")

-----------------------------------------------------------------------------
(* clear_setting: the arguments of the global commands *)

\* the del command of a global command
DelCommandFor(command) ==
    IF command = S("set-ssl") THEN S("del-ssl")
    ELSE IF command = S("set-fail-mode") THEN S("del-fail-mode")
    ELSE S("del-controller")

\* C17: for the key set-ssl the get and the del command are issued with no
\* argument, whatever row carries the tag; for set-fail-mode and
\* set-controller they are issued with the name of the tagged row as their
\* one argument.
C17_GlobalScoping ==
    KnownGlobal(setting) =>
        LET command == GlobalCommand(setting)
            object == IF command = S("set-ssl") THEN <<>> ELSE <<iface>>
        IN /\ \A i \in 1..Len(log) :
                /\ IsGlobalGet(log[i]) =>
                     log[i].argv = <<OVS_VSCTL_PATH, GetCommandFor(command)>> \o object
                /\ IsGlobalDel(log[i]) =>
                     log[i].argv = <<OVS_VSCTL_PATH, DelCommandFor(command)>> \o object
           /\ Len(log) >= 1 => IsGlobalGet(log[1])
           /\ pc = "del_global_del" => (Len(log) = 1 /\ log[1].rc = 0)
           /\ Len(log) = 3 => IsGlobalDel(log[2])

\* the tag set-ssl on the bridge ovs0: 'get-ssl' and 'del-ssl' without ovs0
C17_Witness ==
    /\ CallReturned
    /\ setting = TagPrefix \o <<"global", "/", "set-ssl">>
    /\ type = S("Bridge") /\ iface = S("ovs0")
    /\ Len(log) = 3
    /\ log[1].argv = <<OVS_VSCTL_PATH, S("get-ssl")>>
    /\ log[2].argv = <<OVS_VSCTL_PATH, S("del-ssl")>>
    /\ db0.SSL # <<>> /\ db.SSL = <<>>

-----------------------------------------------------------------------------
(* apply_ovs_cleanup: the tags after a call *)

\* the key of an external-ids entry is a tag
IsTagEntry(e) == StartsWith(e[1], TagPrefix)

\* the name ovs-vsctl is given for a row of table tbl
RowId(tbl, r) == IF tbl = "Open_vSwitch" THEN S(".") ELSE r.name

\* the database when step 2 listed its first table
DbAtStep2 ==
    DbAt(CHOOSE k \in 1..Len(log) :
            log[k].at = "step2_list" /\ \A j \in 1..(k-1) : log[j].at # "step2_list")

\* the removals of the tag `key' of a row
TagRemovals(tbl, id, key) ==
    {i \in 1..Len(log) :
        log[i].argv = <<OVS_VSCTL_PATH, S("remove"), S(tbl), id, S("external-ids"), key>>}

\* C18 (as stated): after a call that returned, no row that was there when
\* step 2 began holds an external-ids entry netplan/<path>=<value>, and for
\* each such entry clear_setting was called once and the key removed once.
C18_AllTagsForgotten ==
    Returned =>
        \A tbl \in Tables :
            /\ \A r \in RowsIn(db, tbl) :
                \A j \in 1..Len(r.extids) : ~IsTagEntry(r.extids[j])
            /\ \A r \in RowsIn(DbAtStep2, tbl) :
                \A j \in 1..Len(r.extids) :
                    IsTagEntry(r.extids[j]) =>
                        Cardinality(TagRemovals(tbl, RowId(tbl, r), r.extids[j][1])) = 1

-----------------------------------------------------------------------------
(* apply_ovs_cleanup: the marker after a call *)

\* the external-ids of the row `id' of table tbl in database d
ExtidsOf(d, tbl, id) == d[tbl][FindRow(d, tbl, id)].extids

\* every removal of a tag names a key that starts with netplan/, and takes
\* from the external-ids of its row that key and nothing else
TagRemovalTakesTagOnly ==
    \A i \in 1..Len(log) :
        log[i].at = "remove_tag" =>
            LET c == log[i]
                key == c.argv[6]
                keep(e) == e[1] # key
            IN /\ SubSeq(c.argv, 1, 2) = <<OVS_VSCTL_PATH, S("remove")>>
               /\ c.argv[5] = S("external-ids")
               /\ StartsWith(key, TagPrefix)
               /\ c.rc = 0 =>
                    ExtidsOf(DbAt(i+1), c.t[1], c.argv[4])
                        = SelectSeq(ExtidsOf(DbAt(i), c.t[1], c.argv[4]), keep)

\* the removal of the pair netplan="true" from the external-ids of a row
RemovesMarkerPair(c, tbl, id) ==
    c.argv = <<OVS_VSCTL_PATH, S("remove"), S(tbl), id, S("external-ids"),
               <<"netplan", "=", "\"", "true", "\"">>>>

\* C19 (as stated): the removal of a tag never takes the marker nor an
\* entry whose key does not start with netplan/, and a row that carried the
\* marker before the call and is still there after it carries the marker.
C19_MarkerKept ==
    /\ TagRemovalTakesTagOnly
    /\ Returned =>
        \A tbl \in Tables : \A r \in RowsIn(db0, tbl) :
            (CarriesMarker(r) /\ HasRow(db, tbl, RowId(tbl, r))) =>
                MarkerEntry \in Range(ExtidsOf(db, tbl, RowId(tbl, r)))

\* C19 (amended): the removal of a tag never takes the marker nor an entry
\* whose key does not start with netplan/; a row that carried the marker
\* before the call and is still there after it carries the marker, unless
\* clear_setting was called for netplan/external-ids/netplan with the value
\* true on that row: then _del_dict has removed the pair netplan="true",
\* which is the marker.
C19_MarkerPreservation ==
    /\ TagRemovalTakesTagOnly
    /\ Returned =>
        \A tbl \in Tables : \A r \in RowsIn(db0, tbl) :
            (CarriesMarker(r) /\ HasRow(db, tbl, RowId(tbl, r))) =>
                \/ MarkerEntry \in Range(ExtidsOf(db, tbl, RowId(tbl, r)))
                \/ \E i \in 1..Len(log) :
                    log[i].at = "del_dict" /\ RemovesMarkerPair(log[i], tbl, RowId(tbl, r))

\* the bridge ovs0 had the marker and the tag of its iface-id; after the
\* call the tag and the iface-id are gone and the marker is there
C19_Witness ==
    /\ Returned /\ run = 1
    /\ HasRow(db, "Bridge", S("ovs0"))
    /\ MarkerEntry \in Range(ExtidsOf(db0, "Bridge", S("ovs0")))
    /\ MarkerEntry \in Range(ExtidsOf(db, "Bridge", S("ovs0")))
    /\ E(S("owner"), S("admin")) \in Range(ExtidsOf(db, "Bridge", S("ovs0")))
    /\ \E i \in 1..Len(log) :
        /\ log[i].at = "remove_tag" /\ log[i].rc = 0
        /\ log[i].argv[4] = S("ovs0")
        /\ log[i].argv[6] = TagPrefix \o <<"external-ids", "/", "iface-id">>

-----------------------------------------------------------------------------
(* clear_setting: the reset of a column with a default *)

SetIssued == \E i \in 1..Len(log) : log[i].at = "del_col_set"

\* C20: for a tag of a column with a registered default the call reads
\* nothing from the database: it issues no get and no list command, and
\* whether it issues the set to the default is decided by the recorded
\* value alone (it does when the recorded value is not the default). When
\* the set exited 0 the column holds the default, whatever it held and
\* whether or not that was the recorded value.
C20_ResetIgnoresLive ==
    IsDefaultTag(setting) =>
        LET column == S(setting[3]) IN
        /\ \A i \in 1..Len(log) :
            /\ log[i].at \in {"del_col_set", "remove_tag"}
            /\ ~IsGlobalGet(log[i]) /\ Cmd(log[i])[1] # "--columns="
        /\ (pc = "del_col_set" \/ SetIssued) <=> (pc # "clear_setting" /\ value # S("false"))
        /\ (SetIssued /\ log[1].rc = 0) => TheRow(db).cols[column] = S("false")
        /\ ~(SetIssued /\ log[1].rc = 0) => TheRow(db).cols[column] = TheRow(db0).cols[column]

\* the tag records rstp_enable=true, the live value is false by now, and
\* the set to the default is issued all the same
C20_Witness ==
    /\ CallReturned
    /\ setting = TagPrefix \o S("rstp_enable")
    /\ value = S("true")
    /\ TheRow(db0).cols[S("rstp_enable")] = S("false")
    /\ SetIssued /\ log[1].rc = 0
    /\ log[1].argv[5] = <<"rstp_enable", "=", "false">>

====
